---------------------------- MODULE Spec2Model ----------------------------
(***************************************************************************)
(* A model of the rendering core of the ray tracer                         *)
(* (raytracer/src/common.rs, raytracer/src/image.rs), of its foreign       *)
(* boundary (src/lib.rs) and of its scene parser (raytracer/src/parser.rs).*)
(*                                                                         *)
(* Numbers.  The program computes in f32.  The model draws its inputs from *)
(* an integer lattice (points and extents are whole numbers, directions    *)
(* are axis unit vectors) and keeps only the inputs on which every f32     *)
(* operation of the modelled code is exact (ExactSphere, ExactTriangle), so*)
(* that integer arithmetic computes what the code computes.                *)
(*   - a ray parameter t is held in thousandths (Milli per unit), which    *)
(*     makes the 0.001 threshold of World::hit the integer 1;              *)
(*   - f32::INFINITY is the sentinel INFINITY, above every finite t;       *)
(*   - a unit vector (NVec3) is held as the shortest integer vector of its *)
(*     direction;                                                          *)
(*   - a colour is <<r, g, b, den>>: the channels r/den, g/den, b/den in   *)
(*     lowest terms; the alpha channel is left out.                        *)
(*   - a number the parser reads is held as the decimal its token denotes,*)
(*     num / den in lowest terms (the rounding to f32 is left out);        *)
(*     the u, v of a sample are held as numerator over denominator.        *)
(*                                                                         *)
(* Text.  A &str is a string of characters, and the byte indices of the    *)
(* parser are counted with the UTF-8 length of each character; a slice off *)
(* a char boundary is the outcome Panic.                                   *)
(***************************************************************************)
EXTENDS Integers, Sequences, FiniteSets

\* ------------------------------------------------------------------ bounds
MaxWidth == 2
MaxHeight == 2
MaxSamples == 1
MaxDepth == 3
MaxSpheres == 2
MaxMeshes == 2
MaxTriangles == 2

\* --------------------------------------------------------------- constants
\* Thousandths per unit of the ray parameter: t_min = 0.001 is T_MIN = 1.
Milli == 1000
T_MIN == 1
INFINITY == 1000000000

\* ------------------------------------------------------------ vector maths
Abs(x) == IF x < 0 THEN -x ELSE x

Sgn(x) == IF x < 0 THEN -1 ELSE IF x > 0 THEN 1 ELSE 0

\* Exact quotient n / d (d # 0, d divides n).
Quot(n, d) == IF d > 0 THEN n \div d ELSE (-n) \div (-d)

Divides(d, n) == d # 0 /\ n % Abs(d) = 0

RECURSIVE Gcd(_, _)
Gcd(a, b) == IF b = 0 THEN Abs(a) ELSE Gcd(b, a % Abs(b))

VAdd(a, b) == <<a[1] + b[1], a[2] + b[2], a[3] + b[3]>>

VSub(a, b) == <<a[1] - b[1], a[2] - b[2], a[3] - b[3]>>

VScale(a, k) == <<a[1] * k, a[2] * k, a[3] * k>>

VQuot(a, k) == <<Quot(a[1], k), Quot(a[2], k), Quot(a[3], k)>>

Dot(a, b) == a[1] * b[1] + a[2] * b[2] + a[3] * b[3]

Cross(a, b) ==
    << a[2] * b[3] - a[3] * b[2],
       a[3] * b[1] - a[1] * b[3],
       a[1] * b[2] - a[2] * b[1] >>

LengthSquared(a) == Dot(a, a)

\* normalize: the unit vector of a's direction, held as the shortest integer
\* vector of that direction (a # <<0,0,0>>).
Normalize(a) == VQuot(a, Gcd(a[1], Gcd(a[2], a[3])))

\* The integer square root of a perfect square.
Sqrt(x) == CHOOSE s \in 0..x : s * s = x

IsSquare(x) == \E s \in 0..x : s * s = x

\* ---------------------------------------------------------------------- ray
Ray(origin, direction) == [origin |-> origin, direction |-> direction]

\* Ray::at, for t in thousandths.
At(ray, t) == VAdd(ray.origin, VQuot(VScale(ray.direction, t), Milli))

\* ---------------------------------------------------------------- hittables
\* Option<HitRecord>::None
NoHit == [some |-> FALSE]

HitRecord(position, normal, t, material) ==
    [some |-> TRUE, position |-> position, normal |-> normal, t |-> t,
     material |-> material]

Sphere(center, radius, material) ==
    [center |-> center, radius |-> radius, material |-> material]

\* min_by(partial_cmp) over the roots that passed the filter.
MinOf(S) == CHOOSE x \in S : \A y \in S : x <= y

\* Sphere::hit that gives up when the near root is outside the interval.
SphereHitNearOnly(sphere, ray, t_min, t_max) ==
    LET oc == VSub(ray.origin, sphere.center)
        a == LengthSquared(ray.direction)
        half_b == Dot(oc, ray.direction)
        c == LengthSquared(oc) - sphere.radius * sphere.radius
        discriminant == half_b * half_b - a * c
    IN  IF discriminant < 0 THEN NoHit
        ELSE
          LET t == Quot(Milli * (-half_b - Sqrt(discriminant)), a)
              position == At(ray, t)
          IN  IF t_min < t /\ t < t_max
              THEN HitRecord(position,
                             Normalize(VScale(VSub(position, sphere.center),
                                              Sgn(sphere.radius))),
                             t, sphere.material)
              ELSE NoHit

SphereHit(sphere, ray, t_min, t_max) ==
    LET oc == VSub(ray.origin, sphere.center)
        a == LengthSquared(ray.direction)
        half_b == Dot(oc, ray.direction)
        c == LengthSquared(oc) - sphere.radius * sphere.radius
        discriminant == half_b * half_b - a * c
    IN  IF discriminant < 0 THEN NoHit
        ELSE
          LET discriminant_sqrt == Sqrt(discriminant)
              root1 == Quot(Milli * (-half_b - discriminant_sqrt), a)
              root2 == Quot(Milli * (-half_b + discriminant_sqrt), a)
              roots == {x \in {root1, root2} : t_min < x /\ x < t_max}
          IN  IF roots = {} THEN NoHit
              ELSE
                LET t == MinOf(roots)
                    position == At(ray, t)
                    normal ==
                      Normalize(VScale(VSub(position, sphere.center),
                                       Sgn(sphere.radius)))
                IN  HitRecord(position, normal, t, sphere.material)

\* Triangle::new
Triangle(v0, v1, v2, material) ==
    [v0 |-> v0, v1 |-> v1, v2 |-> v2,
     normal |-> Normalize(Cross(VSub(v1, v0), VSub(v2, v0))),
     material |-> material]

\* fn is_zero: -1e-8 < a < 1e-8, on whole numbers.
IsZero(a) == a = 0

\* The ray parameter Triangle::intersect solves the plane equation for.
PlaneT(n, v0, ray) ==
    LET cos_angle_and_length == Dot(n, ray.direction)
        d == Dot(n, v0)
    IN  Quot(Milli * (Dot(n, ray.origin) + d), cos_angle_and_length)

TriangleIntersect(triangle, ray, t_min, t_max) ==
    LET v0 == triangle.v0
        v1 == triangle.v1
        v2 == triangle.v2
        n == Cross(VSub(v1, v0), VSub(v2, v0))
        cos_angle_and_length == Dot(n, ray.direction)
    IN  IF IsZero(cos_angle_and_length) THEN NoHit
        ELSE
          LET t == PlaneT(n, v0, ray)
          IN  IF t < t_min \/ t > t_max THEN NoHit
              ELSE
                LET p == At(ray, t)
                    n0 == Cross(VSub(v1, v0), VSub(p, v0))
                    n1 == Cross(VSub(v2, v1), VSub(p, v1))
                    n2 == Cross(VSub(v0, v2), VSub(p, v2))
                IN  IF Dot(n, n0) < 0 THEN NoHit
                    ELSE IF Dot(n, n1) < 0 THEN NoHit
                    ELSE IF Dot(n, n2) < 0 THEN NoHit
                    ELSE HitRecord(p, triangle.normal, t, triangle.material)

\* One iteration of Mesh::hit's loop: acc is <<hit_record, closest_intersection>>.
MeshStep(acc, triangle, ray, t_min, t_max) ==
    LET hit == TriangleIntersect(triangle, ray, t_min, t_max)
    IN  IF hit.some /\ hit.t < acc[2]
        THEN <<HitRecord(hit.position, triangle.normal, hit.t, triangle.material),
               hit.t>>
        ELSE acc

RECURSIVE MeshScan(_, _, _, _, _)
MeshScan(triangles, acc, ray, t_min, t_max) ==
    IF triangles = <<>> THEN acc
    ELSE MeshScan(Tail(triangles),
                  MeshStep(acc, Head(triangles), ray, t_min, t_max),
                  ray, t_min, t_max)

\* Mesh::hit; a mesh is its sequence of triangles.
MeshHit(mesh, ray, t_min, t_max) ==
    MeshScan(mesh, <<NoHit, INFINITY>>, ray, t_min, t_max)[1]

\* World::new
World(spheres, meshes) == [spheres |-> spheres, meshes |-> meshes]

\* The first loop's body asking each sphere without the upper bound closest.
WorldSphereStepUnbounded(st, sphere, ray) ==
    LET hit == SphereHit(sphere, ray, T_MIN, INFINITY)
    IN  IF hit.some THEN [closest |-> hit.t, hit_record |-> hit] ELSE st

\* The body of World::hit's first loop: st is [closest, hit_record].
WorldSphereStep(st, sphere, ray) ==
    LET hit == SphereHit(sphere, ray, T_MIN, st.closest)
    IN  IF hit.some THEN [closest |-> hit.t, hit_record |-> hit] ELSE st

\* The second loop's body keeping a mesh's hit only when strictly nearer.
WorldMeshStepStrict(st, mesh, ray) ==
    LET hit == MeshHit(mesh, ray, T_MIN, st.closest)
    IN  IF hit.some /\ hit.t < st.closest
        THEN [closest |-> hit.t, hit_record |-> hit]
        ELSE st

\* The body of World::hit's second loop.
WorldMeshStep(st, mesh, ray) ==
    LET hit == MeshHit(mesh, ray, T_MIN, st.closest)
    IN  IF hit.some THEN [closest |-> hit.t, hit_record |-> hit] ELSE st

RECURSIVE ScanSpheres(_, _, _)
ScanSpheres(spheres, st, ray) ==
    IF spheres = <<>> THEN st
    ELSE ScanSpheres(Tail(spheres), WorldSphereStep(st, Head(spheres), ray), ray)

RECURSIVE ScanMeshes(_, _, _)
ScanMeshes(meshes, st, ray) ==
    IF meshes = <<>> THEN st
    ELSE ScanMeshes(Tail(meshes), WorldMeshStep(st, Head(meshes), ray), ray)

WorldHitStart == [closest |-> INFINITY, hit_record |-> NoHit]

\* World::hit
WorldHit(world, ray) ==
    ScanMeshes(world.meshes,
               ScanSpheres(world.spheres, WorldHitStart, ray),
               ray).hit_record
\* ------------------------------------------------------------------ colour
\* A colour <<r, g, b, den>> in lowest terms (den > 0).
CNorm(c) ==
    LET g == Gcd(Gcd(c[1], c[2]), Gcd(c[3], c[4]))
    IN  <<c[1] \div g, c[2] \div g, c[3] \div g, c[4] \div g>>

\* Color::new(1.0, 1.0, 1.0)
White == <<1, 1, 1, 1>>

\* Vec3::new_zero().into()
Black == <<0, 0, 0, 1>>

\* Vec3::new(0.5, 0.7, 1.0)
SkyBlue == <<5, 7, 10, 10>>

\* Color::mul_with_alpha: the channels multiplied.
MulWithAlpha(x, y) ==
    CNorm(<<x[1] * y[1], x[2] * y[2], x[3] * y[3], x[4] * y[4]>>)

\* Color::add_with_alpha: the channels added.
AddWithAlpha(x, y) ==
    CNorm(<<x[1] * y[4] + y[1] * x[4], x[2] * y[4] + y[2] * x[4],
            x[3] * y[4] + y[3] * x[4], x[4] * y[4]>>)

\* fn lerp: a*(1.0-t) + b*t, for t = tn/td.
Lerp(a, b, tn, td) ==
    CNorm(<<a[1] * (td - tn) * b[4] + b[1] * tn * a[4],
            a[2] * (td - tn) * b[4] + b[2] * tn * a[4],
            a[3] * (td - tn) * b[4] + b[3] * tn * a[4],
            a[4] * b[4] * td>>)

\* ray_color's background: t = 0.5 * (ray.direction.normalize().y() + 1.0),
\* lerp(white, sky blue, t).  The directions of the model are axis unit
\* vectors, whose shortest integer vector is the unit vector itself.
Background(ray) ==
    LET y == Normalize(ray.direction)[2]
    IN  Lerp(White, SkyBlue, y + 1, 2)

\* ScatterData
Absorbed == [some |-> FALSE]

ScatterData(color, next_ray) == [color |-> color, next_ray |-> next_ray]

Continue(origin, direction) == [some |-> TRUE, ray |-> Ray(origin, direction)]

ScatterDirections ==
    {<<0, 0, -1>>, <<0, 0, 1>>, <<1, 0, 0>>, <<-1, 0, 0>>, <<0, 1, 0>>, <<0, -1, 0>>}

\* MaterialType::scatter, by what the random draws can make of it: a Diffuse
\* surface always continues, attenuated by its albedo; a Metal one continues
\* on the normal's side or is absorbed; a Dielectric one always continues,
\* attenuated by white.  The continuation ray starts at the hit.
ScatterOutcomes(material, hit) ==
    LET all == {ScatterData(material.albedo, Continue(hit.position, d)) :
                   d \in ScatterDirections}
        outward == {ScatterData(material.albedo, Continue(hit.position, d)) :
                       d \in {e \in ScatterDirections : Dot(e, hit.normal) > 0}}
    IN  CASE material.kind = "Diffuse" -> all
          [] material.kind = "Metal" ->
                outward \cup {ScatterData(material.albedo, Absorbed)}
          [] material.kind = "Dielectric" -> all

\* ------------------------------------------------------------------- inputs
\* MaterialType values (the variants of materials.rs, by their parameters;
\* an albedo is a colour <<r, g, b, den>>).
Diffuse(albedo) == [kind |-> "Diffuse", albedo |-> albedo]

Metal(albedo) == [kind |-> "Metal", albedo |-> albedo]

Dielectric == [kind |-> "Dielectric", albedo |-> <<1, 1, 1, 1>>]

Grey == <<1, 1, 1, 2>>

Gold == <<4, 3, 1, 5>>

\* Along the ray from the origin down -z, SphereA and SphereB are both entered
\* at t = 3 and TriangleP and TriangleR are crossed at t = 3; SphereC
\* surrounds the origin.
SphereA == Sphere(<<0, 0, -5>>, 2, Diffuse(Grey))

SphereB == Sphere(<<0, 0, -4>>, 1, Metal(Gold))

SphereC == Sphere(<<0, 0, 0>>, 1, Dielectric)

SphereCands == {SphereA, SphereB, SphereC}

TriangleP == Triangle(<<-3, -3, -3>>, <<3, -3, -3>>, <<0, 6, -3>>, Diffuse(Gold))

TriangleQ == Triangle(<<-3, -3, -1>>, <<3, -3, -1>>, <<0, 6, -1>>, Metal(Grey))

\* TriangleP with the other winding: the same points, the opposite normal.
TriangleR == Triangle(<<-3, -3, -3>>, <<0, 6, -3>>, <<3, -3, -3>>, Dielectric)

TriangleCands == {TriangleP, TriangleQ, TriangleR}

Origins == {<<0, 0, 0>>, <<0, 0, 1>>, <<0, 0, -3>>, <<2, 0, 0>>, <<1, 1, 1>>}

Directions == {<<0, 0, -1>>, <<0, 0, 1>>, <<1, 0, 0>>, <<0, 1, 0>>}

Rays == {Ray(o, d) : o \in Origins, d \in Directions}

\* The sequences over S of length at most n in which nothing repeats.
InjSeqs(S, n) ==
    {s \in UNION {[1..k -> S] : k \in 0..n} :
        \A i, j \in DOMAIN s : i # j => s[i] # s[j]}

Range(s) == {s[i] : i \in DOMAIN s}

Meshes == InjSeqs(TriangleCands, MaxTriangles)

\* Lists of meshes that share no triangle (a mesh owns its triangles).
MeshLists ==
    {ms \in UNION {[1..k -> Meshes] : k \in 0..MaxMeshes} :
        \A i, j \in DOMAIN ms : i # j => Range(ms[i]) \cap Range(ms[j]) = {}}

Worlds ==
    {World(ss, ms) : ss \in InjSeqs(SphereCands, MaxSpheres), ms \in MeshLists}

\* f32 computes Sphere::hit exactly: the discriminant has a whole square root.
ExactSphere(sphere, ray) ==
    LET oc == VSub(ray.origin, sphere.center)
        half_b == Dot(oc, ray.direction)
        c == LengthSquared(oc) - sphere.radius * sphere.radius
        discriminant == half_b * half_b - LengthSquared(ray.direction) * c
    IN  discriminant < 0 \/ IsSquare(discriminant)

\* f32 computes Triangle::intersect exactly: t is a whole number.
ExactTriangle(triangle, ray) ==
    LET n == Cross(VSub(triangle.v1, triangle.v0), VSub(triangle.v2, triangle.v0))
        cos_angle_and_length == Dot(n, ray.direction)
    IN  \/ cos_angle_and_length = 0
        \/ Divides(cos_angle_and_length, Dot(n, ray.origin) + Dot(n, triangle.v0))

ExactWorld(w, r) ==
    /\ \A i \in DOMAIN w.spheres : ExactSphere(w.spheres[i], r)
    /\ \A i \in DOMAIN w.meshes :
          \A j \in DOMAIN w.meshes[i] : ExactTriangle(w.meshes[i][j], r)

\* -------------------------------------------------------------------- state
VARIABLES
    world,        \* the World queried (World::hit's self, ray_color's world)
    ray,          \* the ray of the running query (ray_color: let mut ray)
    \* World::hit
    hit_pc,       \* "idle", "spheres", "meshes", "done"
    hit_i,        \* index of the next sphere / mesh of the running loop
    closest,      \* let mut closest
    hit_record,   \* let mut hit_record
    \* one call of Sphere::hit or Triangle::intersect
    prim,         \* the primitive asked: [kind, shape]
    prim_t_min,   \* the call's t_min
    prim_t_max,   \* the call's t_max
    prim_pc,      \* "idle", "ready", "sphere", "triangle"
    prim_out,     \* what the call returned
    \* ray_color
    depth,        \* the parameter depth (options.max_ray_bounces)
    rc_pc,        \* "idle", "loop", "miss", "absorbed", "exhausted"
    rc_i,         \* iterations of for _ in 0..depth completed
    final_color,  \* let mut final_color
    rc_return,    \* the colour returned
    first_ray,    \* the parameter ray
    n_hit,        \* calls of world.hit made so far
    n_scatter,    \* calls of material.scatter made so far
    scattered,    \* the colours of the scatters that continued, in order
    term_color,   \* the colour of the miss or absorption that ended the walk
    \* ray_trace
    width,        \* framebuffer.width
    height,       \* framebuffer.height
    pixels,       \* framebuffer.pixels
    samples_per_pixel,  \* options.samples_per_pixel
    positive_is_up,     \* options.positive_is_up
    logger,       \* options.logger: "None" or "Some" (a Box<dyn Write>)
    row,          \* for row in 0..height
    column,       \* for column in 0..width
    sample,       \* iterations of for _ in 0..samples_per_pixel completed
    color,        \* let mut color
    rt_pc,        \* "idle", "row", "column", "sample", "done", "panic" (an
                  \* index out of bounds), "unwrap" (unwrap of a failed write)
    n_ray_color,  \* calls of ray_color made so far
    writes,       \* per framebuffer cell, the <<row, column>> of each store to it
    own,          \* per (row, column), the sum of the samples drawn for it
    \* render (the foreign boundary)
    ffi_pc,       \* "idle", "call", "copied", "traced", "returned", "read"
    ffi_heap,     \* per address, the block there: [live, cells]
    ffi_in,       \* the parameter framebuffer: CFramebuffer
    ffi_fb,       \* the Framebuffer render owns: [width, height, pixels (address)]
    ffi_out,      \* the CFramebuffer returned
    ffi_image,    \* the pixels ray_trace rendered
    ffi_seen,     \* what the caller reads through ffi_out.pixels
    \* parse_input
    ps_scene,     \* the scene whose description is the parameter source
    ps_pc,        \* "idle", "ready", "done"
    ps_result,    \* the Result returned
    \* one sample of ray_trace
    uv_pc,        \* "idle", "draw", "cast"
    uv_in,        \* [width, height, row, column] of the sample
    uv_u,         \* the u passed to camera.cast_ray
    uv_v          \* the v passed to camera.cast_ray

hitVars == <<hit_pc, hit_i, closest, hit_record>>

primVars == <<prim, prim_t_min, prim_t_max, prim_pc, prim_out>>

colorVars ==
    <<depth, rc_pc, rc_i, final_color, rc_return, first_ray, n_hit, n_scatter,
      scattered, term_color>>

traceVars ==
    <<width, height, pixels, samples_per_pixel, positive_is_up, logger, row,
      column, sample, color, rt_pc, n_ray_color, writes, own>>

ffiVars == <<ffi_pc, ffi_heap, ffi_in, ffi_fb, ffi_out, ffi_image, ffi_seen>>

\* The state of what surrounds the rendering core.
parseVars == <<ps_scene, ps_pc, ps_result>>

sampleVars == <<uv_pc, uv_in, uv_u, uv_v>>

outerVars == <<ffiVars, parseVars, sampleVars>>

\* The state of the rendering core.
coreVars == <<world, ray, hitVars, primVars, colorVars, traceVars>>

vars == <<coreVars, outerVars>>

NoWorld == World(<<>>, <<>>)

NoRay == Ray(<<0, 0, 0>>, <<0, 0, -1>>)

HitIdle ==
    /\ hit_pc = "idle"
    /\ hit_i = 0
    /\ closest = INFINITY
    /\ hit_record = NoHit

PrimIdle ==
    /\ prim = [kind |-> "none"]
    /\ prim_t_min = T_MIN
    /\ prim_t_max = INFINITY
    /\ prim_pc = "idle"
    /\ prim_out = NoHit

ColorIdle ==
    /\ depth = 0
    /\ rc_pc = "idle"
    /\ rc_i = 0
    /\ final_color = White
    /\ rc_return = Black
    /\ first_ray = NoRay
    /\ n_hit = 0
    /\ n_scatter = 0
    /\ scattered = <<>>
    /\ term_color = Black

TraceIdle ==
    /\ width = 0
    /\ height = 0
    /\ pixels = <<>>
    /\ samples_per_pixel = 0
    /\ positive_is_up = TRUE
    /\ logger = "None"
    /\ row = 0
    /\ column = 0
    /\ sample = 0
    /\ color = Black
    /\ rt_pc = "idle"
    /\ n_ray_color = 0
    /\ writes = <<>>
    /\ own = <<>>

\* No CFramebuffer: the NonNull pointer of none is address 0.
NoCFramebuffer == [width |-> 0, height |-> 0, pixels |-> 0]

FfiIdle ==
    /\ ffi_pc = "idle"
    /\ ffi_heap = <<>>
    /\ ffi_in = NoCFramebuffer
    /\ ffi_fb = NoCFramebuffer
    /\ ffi_out = NoCFramebuffer
    /\ ffi_image = <<>>
    /\ ffi_seen = <<>>

ParseIdle ==
    /\ ps_scene = <<>>
    /\ ps_pc = "idle"
    /\ ps_result = [ok |-> FALSE, err |-> "none"]

CoreIdle ==
    /\ world = NoWorld
    /\ ray = NoRay
    /\ HitIdle
    /\ PrimIdle
    /\ ColorIdle
    /\ TraceIdle

\* No f32: the quotient of nothing by nothing.
NoF32 == [num |-> 0, den |-> 0]

SampleIdle ==
    /\ uv_pc = "idle"
    /\ uv_in = <<>>
    /\ uv_u = NoF32
    /\ uv_v = NoF32

OuterIdle == FfiIdle /\ ParseIdle /\ SampleIdle

\* ------------------------------------------------------------- World::hit
HitInit ==
    /\ world \in Worlds
    /\ ray \in Rays
    /\ ExactWorld(world, ray)
    /\ hit_pc = "spheres"
    /\ hit_i = 1
    /\ closest = INFINITY
    /\ hit_record = NoHit
    /\ PrimIdle
    /\ ColorIdle
    /\ TraceIdle
    /\ OuterIdle

\* for sphere in &self.spheres { ... }
HitNextSphere ==
    /\ hit_pc = "spheres"
    /\ hit_i <= Len(world.spheres)
    /\ LET st == WorldSphereStep([closest |-> closest, hit_record |-> hit_record],
                                 world.spheres[hit_i], ray)
       IN  /\ closest' = st.closest
           /\ hit_record' = st.hit_record
    /\ hit_i' = hit_i + 1
    /\ UNCHANGED <<world, outerVars, ray, hit_pc, primVars, colorVars, traceVars>>

HitEndSpheres ==
    /\ hit_pc = "spheres"
    /\ hit_i > Len(world.spheres)
    /\ hit_pc' = "meshes"
    /\ hit_i' = 1
    /\ UNCHANGED <<world, outerVars, ray, closest, hit_record, primVars, colorVars, traceVars>>

\* for mesh in &self.meshes { ... }
HitNextMesh ==
    /\ hit_pc = "meshes"
    /\ hit_i <= Len(world.meshes)
    /\ LET st == WorldMeshStep([closest |-> closest, hit_record |-> hit_record],
                               world.meshes[hit_i], ray)
       IN  /\ closest' = st.closest
           /\ hit_record' = st.hit_record
    /\ hit_i' = hit_i + 1
    /\ UNCHANGED <<world, outerVars, ray, hit_pc, primVars, colorVars, traceVars>>

\* World::hit returns hit_record.
HitReturn ==
    /\ hit_pc = "meshes"
    /\ hit_i > Len(world.meshes)
    /\ hit_pc' = "done"
    /\ UNCHANGED <<world, outerVars, ray, hit_i, closest, hit_record, primVars, colorVars, traceVars>>

HitNext == HitNextSphere \/ HitEndSpheres \/ HitNextMesh \/ HitReturn

SpecHit == HitInit /\ [][HitNext]_vars

\* ------------------------------- Sphere::hit and Triangle::intersect, alone
PrimOrigins ==
    Origins \cup {<<0, -4, 0>>, <<0, -3, 0>>, <<2, 1, 0>>, <<-2, 1, 0>>, <<0, -4, 1>>}

PrimRays == {Ray(o, d) : o \in PrimOrigins, d \in Directions}

PrimTMins == {T_MIN, 3000}

PrimTMaxs == {3000, 5000, 7000, INFINITY}

PrimInit ==
    /\ world = NoWorld
    /\ ray \in PrimRays
    /\ prim \in {[kind |-> "sphere", shape |-> s] : s \in SphereCands}
                  \cup {[kind |-> "triangle", shape |-> t] : t \in TriangleCands}
    /\ prim.kind = "sphere" => ExactSphere(prim.shape, ray)
    /\ prim.kind = "triangle" => ExactTriangle(prim.shape, ray)
    /\ prim_t_min \in PrimTMins
    /\ prim_t_max \in PrimTMaxs
    /\ prim_t_min < prim_t_max
    /\ prim_pc = "ready"
    /\ prim_out = NoHit
    /\ HitIdle
    /\ ColorIdle
    /\ TraceIdle
    /\ OuterIdle

CallSphereHit ==
    /\ prim_pc = "ready"
    /\ prim.kind = "sphere"
    /\ prim_out' = SphereHit(prim.shape, ray, prim_t_min, prim_t_max)
    /\ prim_pc' = "sphere"
    /\ UNCHANGED <<world, outerVars, ray, hitVars, colorVars, traceVars, prim, prim_t_min, prim_t_max>>

CallTriangleIntersect ==
    /\ prim_pc = "ready"
    /\ prim.kind = "triangle"
    /\ prim_out' = TriangleIntersect(prim.shape, ray, prim_t_min, prim_t_max)
    /\ prim_pc' = "triangle"
    /\ UNCHANGED <<world, outerVars, ray, hitVars, colorVars, traceVars, prim, prim_t_min, prim_t_max>>

PrimNext == CallSphereHit \/ CallTriangleIntersect

SpecPrim == PrimInit /\ [][PrimNext]_vars

\* ------------------------------------------------------- World::hit, claims
Done == hit_pc = "done"

\* Every t at which a primitive of w reports an intersection with r beyond the
\* 0.001 threshold, each primitive asked alone and without an upper bound.
SphereTs(w, r) ==
    {SphereHit(w.spheres[i], r, T_MIN, INFINITY).t :
        i \in {k \in DOMAIN w.spheres :
                 SphereHit(w.spheres[k], r, T_MIN, INFINITY).some}}

MeshTs(w, r, i) ==
    {TriangleIntersect(w.meshes[i][j], r, T_MIN, INFINITY).t :
        j \in {k \in DOMAIN w.meshes[i] :
                 TriangleIntersect(w.meshes[i][k], r, T_MIN, INFINITY).some}}

TriangleTs(w, r) == UNION {MeshTs(w, r, i) : i \in DOMAIN w.meshes}

AllTs(w, r) == SphereTs(w, r) \cup TriangleTs(w, r)

C5_Nearest ==
    Done =>
      /\ hit_record.some <=> AllTs(world, ray) # {}
      /\ hit_record.some => hit_record.t = MinOf(AllTs(world, ray))

C5_Bounded ==
    /\ closest' <= closest
    /\ hit_record'.some => hit_record'.t = closest' /\ T_MIN <= closest'
    /\ hit_record' # hit_record => hit_record'.t <= closest

\* C5: World::hit returns nothing iff no sphere and no triangle reports an
\* intersection beyond the threshold, and otherwise a hit at the least t of
\* all those intersections; during the scan closest never increases, and a
\* hit a primitive query returns lies at or below the closest before it.
C5_NearestHit == [](C5_Nearest) /\ [][C5_Bounded]_vars

\* A scan that found a sphere first and a nearer triangle after it.
C5_Witness ==
    /\ Done
    /\ hit_record.some
    /\ SphereTs(world, ray) # {}
    /\ TriangleTs(world, ray) # {}
    /\ \E t \in SphereTs(world, ray) : hit_record.t < t
    /\ Len(world.spheres) = MaxSpheres

\* The same primitives in another order: the spheres permuted, the meshes
\* permuted, the triangles of each mesh permuted.
Injections(n) ==
    {q \in [1..n -> 1..n] : \A i, j \in 1..n : i # j => q[i] # q[j]}

Perms(s) == {[i \in 1..Len(s) |-> s[q[i]]] : q \in Injections(Len(s))}

MeshListPerms(ms) ==
    LET n == Len(ms)
        of == [k \in 1..n |-> Perms(ms[k])]
        any == UNION {of[k] : k \in 1..n}
    IN  UNION {{qs \in [1..n -> any] : \A i \in 1..n : qs[i] \in of[q[i]]} :
                  q \in Injections(n)}

WorldPerms(w) ==
    {World(ss, ms) : ss \in Perms(w.spheres), ms \in MeshListPerms(w.meshes)}

\* World::hit with its two loops exchanged: meshes, then spheres.
WorldHitMeshesFirst(w, r) ==
    ScanSpheres(w.spheres, ScanMeshes(w.meshes, WorldHitStart, r), r).hit_record

\* Two primitives of w report the nearest intersection at the same t.
NearestTie(w, r) ==
    LET m == MinOf(AllTs(w, r))
        ss == {i \in DOMAIN w.spheres :
                 LET h == SphereHit(w.spheres[i], r, T_MIN, INFINITY)
                 IN  h.some /\ h.t = m}
        ts == {ij \in {<<i, j>> : i \in DOMAIN w.meshes, j \in 1..MaxTriangles + 1} :
                 /\ ij[2] \in DOMAIN w.meshes[ij[1]]
                 /\ LET h == TriangleIntersect(w.meshes[ij[1]][ij[2]], r,
                                               T_MIN, INFINITY)
                    IN  h.some /\ h.t = m}
    IN  AllTs(w, r) # {} /\ Cardinality(ss) + Cardinality(ts) >= 2

\* C6 as claimed: every order of the primitives returns the same hit record.
C6_AnyOrderSameRecord ==
    Done =>
      \A w \in WorldPerms(world) :
          /\ WorldHit(w, ray) = hit_record
          /\ WorldHitMeshesFirst(w, ray) = hit_record

\* C6, amended: every order of the primitives returns a hit or none alike,
\* at the same t and position; meshes before spheres returns the same record
\* as spheres before meshes; and every order returns the same record when no
\* two primitives report the nearest intersection at the same t.
C6_OrderSameT ==
    Done =>
      LET tie == NearestTie(world, ray)
      IN  \A w \in WorldPerms(world) :
              LET h == WorldHit(w, ray)
              IN  /\ h.some = hit_record.some
                  /\ h.some => /\ h.t = hit_record.t
                               /\ h.position = hit_record.position
                  /\ WorldHitMeshesFirst(w, ray) = h
                  /\ ~tie => h = hit_record

\* A sphere and a triangle, and two spheres, intersected at the same nearest t.
C6_Witness ==
    /\ Done
    /\ hit_record.some
    /\ NearestTie(world, ray)
    /\ hit_record.t \in SphereTs(world, ray) \cap TriangleTs(world, ray)
    /\ \E w \in WorldPerms(world) : WorldHit(w, ray) # hit_record
\* --------------------------------------------------- primitive calls, claims
\* How far along a ray, in whole units, the crossings are looked for.
Reach == 12

\* Sphere::hit's discriminant half_b^2 - a*c.
Discriminant(sphere, r) ==
    LET oc == VSub(r.origin, sphere.center)
        half_b == Dot(oc, r.direction)
    IN  half_b * half_b
          - LengthSquared(r.direction)
              * (LengthSquared(oc) - sphere.radius * sphere.radius)

\* The parameters t at which the ray r is on the sphere's surface.
SphereCrossings(sphere, r) ==
    {k * Milli : k \in {j \in -Reach..Reach :
        LengthSquared(VSub(VAdd(r.origin, VScale(r.direction, j)), sphere.center))
          = sphere.radius * sphere.radius}}

\* C8: Sphere::hit returns nothing if the discriminant is negative or no root
\* lies strictly inside (t_min, t_max), and otherwise the smallest root
\* strictly inside it.
C8_SmallestRootInside ==
    prim_pc = "sphere" =>
      LET inside == {t \in SphereCrossings(prim.shape, ray) :
                        prim_t_min < t /\ t < prim_t_max}
      IN  /\ Discriminant(prim.shape, ray) < 0 => ~prim_out.some
          /\ inside = {} => ~prim_out.some
          /\ inside # {} => prim_out.some /\ prim_out.t = MinOf(inside)

\* The far root returned, the near one being at or below t_min.
C8_Witness ==
    /\ prim_pc = "sphere"
    /\ prim_out.some
    /\ \E t \in SphereCrossings(prim.shape, ray) : t < prim_out.t

\* The ray's true crossing of the triangle's plane: n.(origin + t*direction)
\* = n.v0, so t = (n.v0 - n.origin) / (n.direction).
TrueCrossingT(triangle, r) ==
    LET n == Cross(VSub(triangle.v1, triangle.v0), VSub(triangle.v2, triangle.v0))
    IN  Quot(Milli * (Dot(n, triangle.v0) - Dot(n, r.origin)), Dot(n, r.direction))

\* p, a point of the triangle's plane, is inside the triangle or on an edge.
InsideTriangle(triangle, p) ==
    LET v0 == triangle.v0
        v1 == triangle.v1
        v2 == triangle.v2
        n == Cross(VSub(v1, v0), VSub(v2, v0))
    IN  /\ Dot(n, Cross(VSub(v1, v0), VSub(p, v0))) >= 0
        /\ Dot(n, Cross(VSub(v2, v1), VSub(p, v1))) >= 0
        /\ Dot(n, Cross(VSub(v0, v2), VSub(p, v2))) >= 0

CrossesPlane(triangle, r) ==
    Dot(Cross(VSub(triangle.v1, triangle.v0), VSub(triangle.v2, triangle.v0)),
        r.direction) # 0

\* C7: Triangle::intersect returns a hit exactly when the ray's true crossing
\* of the triangle's plane lies inside [t_min, t_max] and the crossing point
\* lies inside the triangle (edges included), whatever the ray's origin.
C7_HitIffCrossingInside ==
    prim_pc = "triangle" =>
      LET t == TrueCrossingT(prim.shape, ray)
      IN  prim_out.some <=>
            /\ CrossesPlane(prim.shape, ray)
            /\ prim_t_min <= t
            /\ t <= prim_t_max
            /\ InsideTriangle(prim.shape, At(ray, t))
\* ---------------------------------------------------------------- ray_color
\* The worlds ray_color is run on: up to MaxSpheres spheres and up to one
\* mesh of one triangle.
ColorWorlds ==
    {World(ss, ms) : ss \in InjSeqs(SphereCands, MaxSpheres),
                     ms \in {<<>>} \cup {<<<<t>>>> : t \in TriangleCands}}

\* for _ in 0..depth, after i iterations: another one follows.
LoopOffByOne(i, d) == i <= d

LoopContinues(i, d) == i < d

\* A continuing scatter that replaces the attenuation by the scatter colour.
AttenuateReplaced(fc, c) == c

\* final_color = final_color.mul_with_alpha(&color)
Attenuate(fc, c) == MulWithAlpha(fc, c)

\* return final_color.mul_with_alpha(&color), the scatter having no next ray
ReturnAbsorbed(fc, c) == MulWithAlpha(fc, c)

\* A miss that returns the attenuation without the background.
ReturnAttenuationOnly(fc, r) == fc

\* The else branch of ray_color: the background seen along r, attenuated.
ReturnBackground(fc, r) == MulWithAlpha(fc, Background(r))

\* A walk that returns what it accumulated when the bounces run out.
ReturnAccumulated(fc) == fc

\* return Vec3::new_zero().into(), after the loop
ReturnExhausted(fc) == Black

ColorInit ==
    /\ world \in ColorWorlds
    /\ first_ray \in Rays
    /\ ExactWorld(world, first_ray)
    /\ depth \in 0..MaxDepth
    /\ ray = first_ray
    /\ final_color = White
    /\ rc_pc = "loop"
    /\ rc_i = 0
    /\ rc_return = Black
    /\ n_hit = 0
    /\ n_scatter = 0
    /\ scattered = <<>>
    /\ term_color = Black
    /\ HitIdle
    /\ PrimIdle
    /\ TraceIdle
    /\ OuterIdle

\* An iteration in which world.hit(&ray) is None.
ColorMiss ==
    /\ rc_pc = "loop"
    /\ LoopContinues(rc_i, depth)
    /\ ~WorldHit(world, ray).some
    /\ n_hit' = n_hit + 1
    /\ term_color' = Background(ray)
    /\ rc_return' = ReturnBackground(final_color, ray)
    /\ rc_pc' = "miss"
    /\ UNCHANGED <<world, outerVars, ray, depth, rc_i, final_color, first_ray, n_scatter,
                   scattered, hitVars, primVars, traceVars>>

\* An iteration in which the ray hits and the scatter has no next ray.
ColorAbsorb ==
    /\ rc_pc = "loop"
    /\ LoopContinues(rc_i, depth)
    /\ LET hit == WorldHit(world, ray)
       IN  /\ hit.some
           /\ \E sd \in ScatterOutcomes(hit.material, hit) :
                 /\ ~sd.next_ray.some
                 /\ term_color' = sd.color
                 /\ rc_return' = ReturnAbsorbed(final_color, sd.color)
    /\ n_hit' = n_hit + 1
    /\ n_scatter' = n_scatter + 1
    /\ rc_pc' = "absorbed"
    /\ UNCHANGED <<world, outerVars, ray, depth, rc_i, final_color, first_ray, scattered,
                   hitVars, primVars, traceVars>>

\* An iteration in which the ray hits and the scatter continues.
ColorBounce ==
    /\ rc_pc = "loop"
    /\ LoopContinues(rc_i, depth)
    /\ LET hit == WorldHit(world, ray)
       IN  /\ hit.some
           /\ \E sd \in ScatterOutcomes(hit.material, hit) :
                 /\ sd.next_ray.some
                 /\ ExactWorld(world, sd.next_ray.ray)
                 /\ final_color' = Attenuate(final_color, sd.color)
                 /\ ray' = sd.next_ray.ray
                 /\ scattered' = Append(scattered, sd.color)
    /\ n_hit' = n_hit + 1
    /\ n_scatter' = n_scatter + 1
    /\ rc_i' = rc_i + 1
    /\ UNCHANGED <<world, outerVars, depth, rc_pc, rc_return, first_ray, term_color,
                   hitVars, primVars, traceVars>>

\* The loop is over: every iteration hit and continued.
ColorExhausted ==
    /\ rc_pc = "loop"
    /\ ~LoopContinues(rc_i, depth)
    /\ rc_return' = ReturnExhausted(final_color)
    /\ rc_pc' = "exhausted"
    /\ UNCHANGED <<world, outerVars, ray, depth, rc_i, final_color, first_ray, n_hit,
                   n_scatter, scattered, term_color, hitVars, primVars, traceVars>>

ColorNext == ColorMiss \/ ColorAbsorb \/ ColorBounce \/ ColorExhausted

SpecColor == ColorInit /\ [][ColorNext]_vars
\* -------------------------------------------------------- ray_color, claims
ColorDone == rc_pc \in {"miss", "absorbed", "exhausted"}

\* The product of the colours of cs, from opaque white.
RECURSIVE Product(_)
Product(cs) ==
    IF cs = <<>> THEN White
    ELSE MulWithAlpha(Product(SubSeq(cs, 1, Len(cs) - 1)), cs[Len(cs)])

C1_Bounded ==
    /\ rc_i <= depth
    /\ n_hit <= depth
    /\ n_scatter <= depth
    /\ n_scatter <= n_hit

\* What is left of the walk: 0 once it has returned, and else one more than
\* the iterations the loop still has.
C1_Variant == IF ColorDone THEN 0 ELSE 1 + depth - rc_i

\* One of ray_color's steps can be taken: the loop is over, or the ray misses,
\* or it hits and the scatter's outcome is one of those drawn.
C1_CanStep ==
    /\ rc_pc = "loop"
    /\ \/ ~LoopContinues(rc_i, depth)
       \/ ~WorldHit(world, ray).some
       \/ \E sd \in ScatterOutcomes(WorldHit(world, ray).material,
                                    WorldHit(world, ray)) :
             sd.next_ray.some => ExactWorld(world, sd.next_ray.ray)

\* C1: ray_color terminates (until it has returned it can take a step, and
\* every step brings the natural number C1_Variant down), having made at most
\* max_ray_bounces World::hit queries and at most max_ray_bounces scatter
\* calls, also when every scatter continues.
C1_Terminates ==
    /\ [](C1_Bounded /\ C1_Variant >= 0 /\ (ColorDone \/ C1_CanStep))
    /\ [][C1_Variant' < C1_Variant]_vars

\* A walk of MaxDepth iterations every one of which hit and continued.
C1_Witness ==
    /\ ColorDone
    /\ depth = MaxDepth
    /\ n_hit = depth
    /\ n_scatter = depth
    /\ Len(scattered) = depth

\* C2: ray_color returns black when the loop runs out, which is when all
\* max_ray_bounces iterations hit and continued; with max_ray_bounces = 0 it
\* returns black without a World::hit query, whatever the scene.
C2_ExhaustedIsBlack ==
    /\ rc_pc = "exhausted" => rc_return = Black
    /\ rc_pc = "exhausted" <=> ColorDone /\ Len(scattered) = depth
    /\ ColorDone /\ depth = 0 => rc_pc = "exhausted" /\ rc_return = Black /\ n_hit = 0

\* The loop run out with an attenuation that is not black.
C2_Witness ==
    /\ rc_pc = "exhausted"
    /\ depth >= 2
    /\ n_scatter = depth
    /\ final_color # Black
    /\ final_color # White

C3_State ==
    /\ rc_pc = "idle" \/ final_color = Product(scattered)
    /\ rc_pc \in {"loop", "miss", "absorbed"} => Len(scattered) = rc_i
    /\ rc_pc = "miss" =>
          /\ term_color = Background(ray)
          /\ rc_return = MulWithAlpha(Product(scattered), term_color)
    /\ rc_pc = "absorbed" =>
          rc_return = MulWithAlpha(Product(scattered), term_color)

C3_Step ==
    /\ rc_pc = "loop" /\ rc_pc' = "miss" =>
          ~WorldHit(world, ray).some /\ ray' = ray
    /\ rc_pc = "loop" /\ rc_pc' = "absorbed" =>
          WorldHit(world, ray).some /\ n_scatter' = n_scatter + 1
    /\ rc_pc = "loop" /\ rc_pc' = "loop" =>
          /\ WorldHit(world, ray).some
          /\ Len(scattered') = Len(scattered) + 1
          /\ final_color' = MulWithAlpha(final_color, scattered'[Len(scattered')])
          /\ ray'.origin = WorldHit(world, ray).position

\* C3: the attenuation starts at opaque white; a miss ends the walk with the
\* attenuation times the background of the current ray, an absorption with
\* the attenuation times the scatter colour, and a continuing scatter
\* multiplies the attenuation by its colour and replaces the ray; so what is
\* returned at iteration k is the product of the k-1 earlier scatter colours
\* times the colour that ended the walk.
C3_Protocol == [](C3_State) /\ [][C3_Step]_vars

\* An absorption after two continuing scatters that attenuated.
C3_Witness ==
    /\ rc_pc = "absorbed"
    /\ Len(scattered) >= 2
    /\ Product(scattered) # White
    /\ rc_return # term_color

EmptyWorld == world.spheres = <<>> /\ world.meshes = <<>>

\* C4 as claimed: on a world without primitives ray_color returns the
\* background of its ray and scatters nothing.
C4_EmptyWorldBackground ==
    ColorDone /\ EmptyWorld =>
      rc_return = Background(first_ray) /\ n_scatter = 0

\* C4, amended: on a world without primitives and with max_ray_bounces >= 1,
\* ray_color returns exactly the background of its ray, after one World::hit
\* query and no scatter.
C4_EmptyWorldBackgroundDepth ==
    ColorDone /\ EmptyWorld /\ depth >= 1 =>
      /\ rc_pc = "miss"
      /\ rc_return = Background(first_ray)
      /\ n_scatter = 0
      /\ n_hit = 1

\* A ray along the horizon through an empty world.
C4_Witness ==
    /\ ColorDone
    /\ EmptyWorld
    /\ depth >= 1
    /\ rc_return = Background(first_ray)
    /\ rc_return \notin {White, Black}
\* ---------------------------------------------------------------- ray_trace
\* ColorU8 (the channels r, g, b)
ColorU8(r, g, b) == [r |-> r, g |-> g, b |-> b]

\* Framebuffer::new
FramebufferNew(w, h) ==
    [width |-> w, height |-> h, pixels |-> [i \in 1..(w * h) |-> ColorU8(0, 0, 0)]]

\* Index<[usize; 2]> for Framebuffer: the offset of [r, c] in pixels.
Index(fb_width, r, c) == r * fb_width + c

\* The row of framebuffer[[height - row - 1, column]].
DestRow(h, r) == h - r - 1

\* Every sample of a pixel added onto the colour left by the pixel before it.
FreshColorKept(c) == c

\* let mut color = Color::new(0.0, 0.0, 0.0), c being what the name held.
FreshColor(c) == Black

\* (f32::sqrt(x * (1.0 / samples_per_pixel as f32)) * 255.999) as u8 for the
\* channel x = n/d: the greatest q in 0..255 with q <= 255.999 * sqrt(x/spp),
\* that is q*q*d*spp <= 65535.488001 * n; with no sample, 0.0 * inf is NaN
\* and NaN as u8 is 0.
GammaU8(n, d, spp) ==
    IF spp <= 0 THEN 0
    ELSE LET bound == 65535 * n + (488001 * n) \div 1000000
         IN  CHOOSE q \in 0..255 :
               /\ q * q * d * spp <= bound
               /\ q = 255 \/ (q + 1) * (q + 1) * d * spp > bound

\* The ColorU8 ray_trace stores for the summed colour c.
GammaPixel(c, spp) ==
    ColorU8(GammaU8(c[1], c[4], spp), GammaU8(c[2], c[4], spp),
            GammaU8(c[3], c[4], spp))

\* What ray_color may return for a sample.
SampleColors == {Black, SkyBlue}

\* options.logger: Option<Box<dyn Write>>
Loggers == {"None", "Some"}

TraceInit ==
    /\ width \in 0..MaxWidth
    /\ height \in 0..MaxHeight
    /\ samples_per_pixel \in 0..MaxSamples
    /\ positive_is_up \in BOOLEAN
    /\ logger \in Loggers
    /\ pixels = FramebufferNew(width, height).pixels
    /\ row = 0
    /\ column = 0
    /\ sample = 0
    /\ color = Black
    /\ rt_pc = "row"
    /\ n_ray_color = 0
    /\ writes = [i \in 1..(width * height) |-> <<>>]
    /\ own = [i \in 1..(width * height) |-> Black]
    /\ world = NoWorld
    /\ ray = NoRay
    /\ HitIdle
    /\ PrimIdle
    /\ ColorIdle
    /\ OuterIdle

\* What write!(logger, ..) may return: a writer may fail on any write.
WriteResults == {"Ok", "Err"}

\* for row in 0..height: the next row begins.  With a logger the scanline is
\* written to it first, and the unwrap of a failed write panics.
TraceRow ==
    /\ rt_pc = "row"
    /\ row < height
    /\ \E written \in WriteResults :
          IF logger = "Some" /\ written = "Err"
          THEN rt_pc' = "unwrap" /\ UNCHANGED column
          ELSE rt_pc' = "column" /\ column' = 0
    /\ UNCHANGED <<width, height, pixels, samples_per_pixel, positive_is_up,
                   logger, row, sample, color, n_ray_color, writes, own>>
    /\ UNCHANGED <<world, outerVars, ray, hitVars, primVars, colorVars>>

\* The rows are over: ray_trace returns the framebuffer.
TraceReturn ==
    /\ rt_pc = "row"
    /\ row >= height
    /\ rt_pc' = "done"
    /\ UNCHANGED <<width, height, pixels, samples_per_pixel, positive_is_up,
                   logger, row,
                   column, sample, color, n_ray_color, writes, own>>
    /\ UNCHANGED <<world, outerVars, ray, hitVars, primVars, colorVars>>

\* for column in 0..width: the next pixel begins.
TraceColumn ==
    /\ rt_pc = "column"
    /\ column < width
    /\ color' = FreshColor(color)
    /\ sample' = 0
    /\ rt_pc' = "sample"
    /\ UNCHANGED <<width, height, pixels, samples_per_pixel, positive_is_up,
                   logger, row,
                   column, n_ray_color, writes, own>>
    /\ UNCHANGED <<world, outerVars, ray, hitVars, primVars, colorVars>>

\* The columns of the row are over.
TraceEndRow ==
    /\ rt_pc = "column"
    /\ column >= width
    /\ row' = row + 1
    /\ rt_pc' = "row"
    /\ UNCHANGED <<width, height, pixels, samples_per_pixel, positive_is_up,
                   logger, column, sample, color, n_ray_color, writes, own>>
    /\ UNCHANGED <<world, outerVars, ray, hitVars, primVars, colorVars>>

\* for _ in 0..options.samples_per_pixel: one jittered sample; (u, v) goes to
\* camera.cast_ray and the ray to ray_color, whose colour is c.
TraceSample ==
    /\ rt_pc = "sample"
    /\ sample < samples_per_pixel
    /\ \E c \in SampleColors :
          /\ color' = AddWithAlpha(color, c)
          /\ own' = [own EXCEPT ![Index(width, row, column) + 1] =
                                    AddWithAlpha(@, c)]
    /\ n_ray_color' = n_ray_color + 1
    /\ sample' = sample + 1
    /\ UNCHANGED <<width, height, pixels, samples_per_pixel, positive_is_up,
                   logger, row,
                   column, rt_pc, writes>>
    /\ UNCHANGED <<world, outerVars, ray, hitVars, primVars, colorVars>>

\* Gamma correction and framebuffer[[height - row - 1, column]] = ColorU8 {..};
\* an index past the end of pixels panics.
TraceWrite ==
    /\ rt_pc = "sample"
    /\ sample >= samples_per_pixel
    /\ LET cell == Index(width, DestRow(height, row), column)
       IN  IF 0 <= cell /\ cell < Len(pixels)
           THEN /\ pixels' = [pixels EXCEPT
                                ![cell + 1] = GammaPixel(color, samples_per_pixel)]
                /\ writes' = [writes EXCEPT
                                ![cell + 1] = Append(@, <<row, column>>)]
                /\ column' = column + 1
                /\ rt_pc' = "column"
           ELSE /\ rt_pc' = "panic"
                /\ UNCHANGED <<pixels, writes, column>>
    /\ UNCHANGED <<width, height, samples_per_pixel, positive_is_up, logger, row,
                   sample,
                   color, n_ray_color, own>>
    /\ UNCHANGED <<world, outerVars, ray, hitVars, primVars, colorVars>>

TraceNext ==
    \/ TraceRow
    \/ TraceReturn
    \/ TraceColumn
    \/ TraceEndRow
    \/ TraceSample
    \/ TraceWrite

SpecTrace == TraceInit /\ [][TraceNext]_vars
\* -------------------------------------------------------- ray_trace, claims
TraceDone == rt_pc = "done"

Cells == 1..(width * height)

\* The steps one pixel takes (begin, the samples, the store) and one row takes
\* (begin, its pixels, end).
PixelSteps == samples_per_pixel + 2

RowSteps == width * PixelSteps + 2

\* The steps ray_trace still has to take.
StepsLeft ==
    CASE rt_pc = "row" -> (height - row) * RowSteps + 1
      [] rt_pc = "column" ->
            (width - column) * PixelSteps + 1 + (height - row - 1) * RowSteps + 1
      [] rt_pc = "sample" ->
            (samples_per_pixel - sample) + 1 + (width - column - 1) * PixelSteps + 1
              + (height - row - 1) * RowSteps + 1
      [] OTHER -> 0

C10_Counts ==
    /\ StepsLeft >= 0
    /\ Len(pixels) = width * height
    /\ n_ray_color <= width * height * samples_per_pixel
    /\ \A i \in Cells : Len(writes[i]) <= 1
    /\ TraceDone =>
          /\ n_ray_color = width * height * samples_per_pixel
          /\ \A i \in Cells : Len(writes[i]) = 1
          /\ \A r \in 0..(height - 1), c \in 0..(width - 1) :
                pixels[Index(width, height - r - 1, c) + 1]
                  = GammaPixel(own[Index(width, r, c) + 1], samples_per_pixel)

C10_State == rt_pc \in {"row", "column", "sample", "done"} /\ C10_Counts

\* C10: ray_trace terminates (every step brings StepsLeft down by one, to 0
\* when it returns) after exactly width*height*samples_per_pixel calls of
\* ray_color; no store is out of bounds, every cell is stored to exactly once,
\* with the gamma-corrected sum of the samples drawn for its own (row,
\* column); and pixels keeps the length width*height.
C10_EveryCellOnce == [](C10_State) /\ [][StepsLeft' = StepsLeft - 1]_vars

\* C9: the row of the framebuffer that receives sample row `row` follows
\* positive_is_up: height-row-1 when it is set (the first sample row, v = 0,
\* lands in the last row of the image) and row when it is not, so that the two
\* frames mirror each other.
C9_RowsFollowFlag ==
    TraceDone =>
      \A r \in 0..(height - 1), c \in 0..(width - 1) :
          writes[Index(width, r, c) + 1]
            = << <<IF positive_is_up THEN height - r - 1 ELSE r, c>> >>

\* ------------------------------------------------- render (foreign boundary)
\* The addresses of the caller's pixel buffer and of the Vec that
\* slice::from_raw_parts(..).to_vec() allocates.
CallerBuffer == 1

VecBuffer == 2

\* What the caller's buffer holds before the call, what ray_trace may store
\* to a cell, and what a read of freed storage may find besides what was there.
CallerPixel == ColorU8(9, 9, 9)

RenderedPixels == {ColorU8(0, 0, 0), ColorU8(255, 255, 255)}

GarbagePixel == ColorU8(1, 2, 3)

\* A block of the heap.
Block(live, cells) == [live |-> live, cells |-> cells]

CFramebuffer(w, h, address) == [width |-> w, height |-> h, pixels |-> address]

\* impl Into<Framebuffer> for CFramebuffer: the Vec is a copy of count pixels
\* read at self.pixels.
CFramebufferInto(c, heap) ==
    LET count == c.width * c.height
    IN  [k \in 1..count |-> heap[c.pixels].cells[k]]

\* impl From<Framebuffer> for CFramebuffer: the pointer is that of the Vec.
CFramebufferFrom(fb) == CFramebuffer(fb.width, fb.height, fb.pixels)

\* The caller holds a width x height buffer and calls render.
FfiInit ==
    /\ \E w \in 0..MaxWidth, h \in 0..MaxHeight :
          /\ ffi_in = CFramebuffer(w, h, CallerBuffer)
          /\ ffi_heap = [a \in {CallerBuffer} |->
                           Block(TRUE, [k \in 1..(w * h) |-> CallerPixel])]
    /\ ffi_pc = "call"
    /\ ffi_fb = NoCFramebuffer
    /\ ffi_out = NoCFramebuffer
    /\ ffi_image = <<>>
    /\ ffi_seen = <<>>
    /\ CoreIdle
    /\ ParseIdle
    /\ SampleIdle

\* framebuffer.into(): the argument of ray_trace is a Framebuffer over a new
\* Vec.
FfiInto ==
    /\ ffi_pc = "call"
    /\ ffi_heap' = [a \in {CallerBuffer, VecBuffer} |->
                      IF a = VecBuffer
                      THEN Block(TRUE, CFramebufferInto(ffi_in, ffi_heap))
                      ELSE ffi_heap[a]]
    /\ ffi_fb' = CFramebuffer(ffi_in.width, ffi_in.height, VecBuffer)
    /\ ffi_pc' = "copied"
    /\ UNCHANGED <<ffi_in, ffi_out, ffi_image, ffi_seen>>
    /\ UNCHANGED <<coreVars, parseVars, sampleVars>>

\* ray_trace(world, camera, framebuffer.into(), &options): every cell of the
\* Framebuffer it was given is stored to, and the Framebuffer is returned.
FfiRayTrace ==
    /\ ffi_pc = "copied"
    /\ \E image \in [1..(ffi_fb.width * ffi_fb.height) -> RenderedPixels] :
          /\ ffi_image' = image
          /\ ffi_heap' = [ffi_heap EXCEPT ![ffi_fb.pixels] = Block(TRUE, image)]
    /\ ffi_pc' = "traced"
    /\ UNCHANGED <<ffi_in, ffi_fb, ffi_out, ffi_seen>>
    /\ UNCHANGED <<coreVars, parseVars, sampleVars>>

\* framebuffer.into() on the way out, and render returns: from() takes the
\* Framebuffer by value, so its Vec is dropped when from() ends.
FfiFrom ==
    /\ ffi_pc = "traced"
    /\ ffi_out' = CFramebufferFrom(ffi_fb)
    /\ ffi_heap' = [ffi_heap EXCEPT ![ffi_fb.pixels].live = FALSE]
    /\ ffi_pc' = "returned"
    /\ UNCHANGED <<ffi_in, ffi_fb, ffi_image, ffi_seen>>
    /\ UNCHANGED <<coreVars, parseVars, sampleVars>>

\* The caller reads width * height pixels at the pointer returned.  A read of
\* a freed block is undefined: each cell may still hold what was there or
\* hold anything else, or the read may fault.
FfiCallerRead ==
    /\ ffi_pc = "returned"
    /\ LET block == ffi_heap[ffi_out.pixels]
           count == ffi_out.width * ffi_out.height
       IN  IF block.live
           THEN ffi_seen' = [k \in 1..count |-> block.cells[k]]
           ELSE \/ \E stale \in SUBSET (1..count) :
                      ffi_seen' = [k \in 1..count |->
                                     IF k \in stale THEN block.cells[k]
                                     ELSE GarbagePixel]
                \/ ffi_seen' = "fault"
    /\ ffi_pc' = "read"
    /\ UNCHANGED <<ffi_heap, ffi_in, ffi_fb, ffi_out, ffi_image>>
    /\ UNCHANGED <<coreVars, parseVars, sampleVars>>

FfiNext == FfiInto \/ FfiRayTrace \/ FfiFrom \/ FfiCallerRead

SpecFfi == FfiInit /\ [][FfiNext]_vars

\* ----------------------------------------------------------- render, claims
FfiReturned == ffi_pc \in {"returned", "read"}

\* C11: once render has returned from a call with a buffer of at least one
\* pixel, the pixels pointer of the CFramebuffer it returned is the caller's
\* buffer, the storage it points to is still allocated and holds the
\* width * height pixels ray_trace rendered, and that is what the caller
\* reads there.
C11_RendersIntoCallerBuffer ==
    FfiReturned /\ ffi_in.width * ffi_in.height >= 1 =>
      /\ ffi_out.pixels = ffi_in.pixels
      /\ ffi_heap[ffi_out.pixels].live
      /\ ffi_heap[ffi_out.pixels].cells = ffi_image
      /\ ffi_heap[ffi_in.pixels].cells = ffi_image
      /\ ffi_pc = "read" => ffi_seen = ffi_image

\* ------------------------------------------------------------------- parser
\* A &str is a string of characters; the code indexes it by UTF-8 byte.  The
\* characters of the model are ASCII (the printable ones but the grave
\* accent, tab, line feed, vertical tab, form feed, carriage return), U+0085,
\* the Latin-1 characters U+00A0 to U+00FF, and a few characters of three
\* bytes; a source with any other character is outside the model.

\* The unit of the numbers in the scene descriptions below: hundredths.
Centi == 100

\* Err(ParseError::kind)
Err(kind) == [ok |-> FALSE, err |-> kind]

\* A panic: a str sliced at a byte index that is not a char boundary.
Panic == [ok |-> FALSE, err |-> "panic"]

\* &source[index..] and &source[..index], for a character index from 0.
From(source, index) == SubSeq(source, index + 1, Len(source))

Upto(source, index) == SubSeq(source, 1, index)

\* The character at character index `index`.
Char(source, index) == SubSeq(source, index + 1, index + 1)

CharsOf(s) == {Char(s, i) : i \in 0..(Len(s) - 1)}

\* The characters of one byte: U+0020 to U+007E but U+0060, and U+0009 to
\* U+000D.
OneByte ==
    CharsOf(" !\"#$%&'()*+,-./0123456789:;<=>?@ABCDEFGHIJKLMNOPQRSTUVWXYZ["
      \o "\\]^_abcdefghijklmnopqrstuvwxyz{|}~")
      \cup {"\t", "\n", "", "\f", "\r"}

\* Characters of two bytes: U+0085, U+00A0, and U+00A1 to U+00FF (first the
\* ones that are neither letters nor numerals, then the letters and numerals).
TwoBytes ==
    CharsOf(" "
      \o "¡¢£¤¥¦§¨©«¬­®¯°±´¶·¸»¿×÷"
      \o "ª²³µ¹º¼½¾ÀÁÂÃÄÅÆÇÈÉÊËÌÍÎÏÐÑÒÓÔÕÖØÙÚÛÜÝÞßàáâãäåæçèéêëìíîïðñòó"
      \o "ôõöøùúûüýþÿ")

\* Characters of three bytes: two letters and a sign.
ThreeBytes == CharsOf("日語€")

\* char::len_utf8
Utf8Len(c) ==
    CASE c \in OneByte -> 1
      [] c \in TwoBytes -> 2
      [] c \in ThreeBytes -> 3

\* char::is_whitespace: U+0009 to U+000D, the space, U+0085, U+00A0.
Whitespace ==
    {" ", "\t", "\n", "", "\f", "\r", "", " "}

\* b'0'..=b'9'
Digits == {"0", "1", "2", "3", "4", "5", "6", "7", "8", "9"}

\* char::is_alphanumeric: letters and numerals.
Alphanumeric ==
    CharsOf("abcdefghijklmnopqrstuvwxyzABCDEFGHIJKLMNOPQRSTUVWXYZ0123456789"
      \o "ª²³µ¹º¼½¾ÀÁÂÃÄÅÆÇÈÉÊËÌÍÎÏÐÑÒÓÔÕÖØÙÚÛÜÝÞßàáâãäåæçèéêëìíîïðñòó"
      \o "ôõöøùúûüýþÿ"
      \o "日語")

\* c.is_alphanumeric() || c == '_'
IdentifierChars == Alphanumeric \cup {"_"}

\* source.find(|c| !(c in S)).unwrap_or(source.len()), searching from index.
RECURSIVE RunOf(_, _, _)
RunOf(source, S, index) ==
    IF index < Len(source) /\ Utf8Len(Char(source, index)) > 0
                           /\ Char(source, index) \in S
    THEN RunOf(source, S, index + 1)
    ELSE index

\* fn skip_whitespace
SkipWhitespace(source) == From(source, RunOf(source, Whitespace, 0))

\* fn get_identifier: (the rest, the identifier)
GetIdentifier(source) ==
    LET index == RunOf(source, IdentifierChars, 0)
    IN  [rest |-> From(source, index), identifier |-> Upto(source, index)]

\* str::len: the length in bytes.
RECURSIVE ByteLen(_)
ByteLen(source) ==
    IF source = "" THEN 0
    ELSE Utf8Len(Char(source, 0)) + ByteLen(From(source, 1))

\* Where the byte n bytes after the character index `index` lies: the
\* character index there when it is a char boundary, TooShort when the source
\* ends before it, InsideChar when it is inside a character.
TooShort == -2

InsideChar == -1

RECURSIVE CharIndex(_, _, _)
CharIndex(source, index, n) ==
    IF n = 0 THEN index
    ELSE IF n < 0 THEN InsideChar
    ELSE IF index >= Len(source) THEN TooShort
    ELSE CharIndex(source, index + 1, n - Utf8Len(Char(source, index)))

\* One turn of the while loop of fn find, i being the character at whose
\* first byte the byte index stands and k the place of its byte i + size:
\* the slice source[i..i+size] panics off a char boundary; after i += 1 inside
\* a character the next slice panics, if the loop goes on.
RECURSIVE FindFrom(_, _, _)

FindAt(source, target, i, k) ==
    IF k = TooShort THEN Err("DidntStartWith")
    ELSE IF k = InsideChar THEN Panic
    ELSE IF SubSeq(source, i + 1, k) = target
    THEN [ok |-> TRUE, rest |-> From(source, i)]
    ELSE IF Utf8Len(Char(source, i)) = 1 THEN FindFrom(source, target, i + 1)
    ELSE IF CharIndex(source, i, ByteLen(target) + 1) = TooShort
    THEN Err("DidntStartWith")
    ELSE Panic

FindFrom(source, target, i) ==
    FindAt(source, target, i, CharIndex(source, i, ByteLen(target)))

\* fn find: the source from the first occurrence of target on.
Find(source, target) == FindFrom(source, target, 0)

\* source.len() >= size && source[0..size] == target[..], k being the place
\* of the byte `size` of the source.
StartsWithAt(source, target, k) ==
    IF k = TooShort THEN Err("DidntStartWith")
    ELSE IF k = InsideChar THEN Panic
    ELSE IF Upto(source, k) = target THEN [ok |-> TRUE, rest |-> From(source, k)]
    ELSE Err("DidntStartWith")

\* fn starts_with: the source after target.
StartsWith(source, target) ==
    StartsWithAt(source, target, CharIndex(source, 0, ByteLen(target)))

\* The for loop of parse_float from index on: the index it stops at, or -1
\* when it meets a second dot.  The bytes before the index are ASCII, so the
\* index counts bytes and characters alike, and a byte of a character of
\* several bytes ends the loop.
RECURSIVE FloatRun(_, _, _)
FloatRun(source, index, found_dot) ==
    IF index >= Len(source) THEN index
    ELSE LET c == Char(source, index)
         IN  IF c \in Digits THEN FloatRun(source, index + 1, found_dot)
             ELSE IF c = "."
                  THEN IF found_dot THEN -1
                       ELSE FloatRun(source, index + 1, TRUE)
                  ELSE index

\* str::parse::<f32> accepts a token of sign, digits and one dot iff it has a
\* digit.
ValidF32(token) == \E i \in 0..(Len(token) - 1) : Char(token, i) \in Digits

DigitValue(c) == CHOOSE n \in 0..9 : Char("0123456789", n) = c

\* The number a string of digits denotes.
RECURSIVE NaturalOf(_, _)
NaturalOf(digits, acc) ==
    IF digits = "" THEN acc
    ELSE NaturalOf(From(digits, 1), 10 * acc + DigitValue(Char(digits, 0)))

\* An f32 the parser reads is held as the decimal number its token denotes
\* (the rounding to f32 is left out): num / den in lowest terms, den > 0.
Decimal(num, den) ==
    [num |-> num \div Gcd(num, den), den |-> den \div Gcd(num, den)]

RECURSIVE Pow10(_)
Pow10(k) == IF k = 0 THEN 1 ELSE 10 * Pow10(k - 1)

\* The decimal of a sign, the digits before the dot and the digits after it.
DecimalOf(negative, whole, fraction) ==
    Decimal((IF negative THEN -1 ELSE 1)
              * (NaturalOf(whole, 0) * Pow10(Len(fraction))
                   + NaturalOf(fraction, 0)),
            Pow10(Len(fraction)))

\* str::parse::<f32> of a valid token.
F32Value(token) ==
    LET negative == Char(token, 0) = "-"
        body == IF negative THEN From(token, 1) ELSE token
        dot == RunOf(body, Digits, 0)
    IN  DecimalOf(negative, Upto(body, dot), From(body, dot + 1))

\* The end of parse_float: source[0..index].parse::<f32>() on the run the for
\* loop found.
FloatToken(source, index) ==
    IF index = -1 \/ ~ValidF32(Upto(source, index)) THEN Err("NotAF32")
    ELSE [ok |-> TRUE, rest |-> From(source, index),
          value |-> F32Value(Upto(source, index))]

\* fn parse_float
ParseFloat(source) ==
    IF CharIndex(source, 0, 3) = TooShort THEN Err("NotAF32")
    ELSE FloatToken(source,
                    FloatRun(source, IF Char(source, 0) = "-" THEN 1 ELSE 0,
                             FALSE))

\* parse_vec3 that hands out its second and third numbers exchanged.
ParseVec3Swapped(source) ==
    LET x == ParseFloat(source)
    IN  IF ~x.ok THEN x
        ELSE LET y == ParseFloat(SkipWhitespace(x.rest))
             IN  IF ~y.ok THEN y
                 ELSE LET z == ParseFloat(SkipWhitespace(y.rest))
                      IN  IF ~z.ok THEN z
                          ELSE [ok |-> TRUE, rest |-> z.rest,
                                value |-> <<x.value, z.value, y.value>>]

\* fn parse_vec3
ParseVec3(source) ==
    LET x == ParseFloat(source)
    IN  IF ~x.ok THEN x
        ELSE LET y == ParseFloat(SkipWhitespace(x.rest))
             IN  IF ~y.ok THEN y
                 ELSE LET z == ParseFloat(SkipWhitespace(y.rest))
                      IN  IF ~z.ok THEN z
                          ELSE [ok |-> TRUE, rest |-> z.rest,
                                value |-> <<x.value, y.value, z.value>>]

\* Ok((source, ..)) without a value.
OkRest(source) == [ok |-> TRUE, rest |-> source]

\* What a statement reads after its keyword: a word (starts_with), three
\* numbers (parse_vec3), one number (parse_float) or a name (get_identifier).
Word(word) == [kind |-> "word", word |-> word]

Vec3Field == [kind |-> "vec3"]

F32Field == [kind |-> "f32"]

NameField == [kind |-> "name"]

\* One read of a statement, on a source whose whitespace is skipped.
ParseField(source, field) ==
    CASE field.kind = "word" -> StartsWith(source, field.word)
      [] field.kind = "vec3" -> ParseVec3(source)
      [] field.kind = "f32" -> ParseFloat(source)
      [] field.kind = "name" ->
            [ok |-> TRUE, rest |-> GetIdentifier(source).rest,
             value |-> GetIdentifier(source).identifier]

\* The reads of a statement in turn, each after skip_whitespace, each `?`
\* returning the first error; the values read, in order.
RECURSIVE ParseFields(_, _, _)

\* What follows the read r of a field: its error, or the fields left.
FieldRead(r, field, fields, values) ==
    IF ~r.ok THEN r
    ELSE ParseFields(r.rest, fields,
                     IF field.kind = "word" THEN values
                     ELSE Append(values, r.value))

ParseFields(source, fields, values) ==
    IF fields = <<>> THEN [ok |-> TRUE, rest |-> source, values |-> values]
    ELSE FieldRead(ParseField(SkipWhitespace(source), Head(fields)),
                   Head(fields), Tail(fields), values)

\* Camera::new_at(o, a)
Camera(origin, aspect) == [origin |-> origin, aspect |-> aspect]

\* The least common multiple, and the least denominator the three decimals
\* of a Vec3 share.
Lcm(a, b) == (a * b) \div Gcd(a, b)

CommonDen(v) == Lcm(v[1].den, Lcm(v[2].den, v[3].den))

\* The Vec3 in units of 1/d, d a multiple of its denominators.
Scaled(v, d) ==
    <<v[1].num * (d \div v[1].den), v[2].num * (d \div v[2].den),
      v[3].num * (d \div v[3].den)>>

\* Vec3 into Color: the channels of a colour.
VecIntoColor(v) ==
    CNorm(<<Scaled(v, CommonDen(v))[1], Scaled(v, CommonDen(v))[2],
            Scaled(v, CommonDen(v))[3], CommonDen(v)>>)

\* Triangle::new on corners that are decimals: the normal is that of the
\* corners taken in a unit they are whole in.
TriangleNew(v0, v1, v2, material) ==
    [v0 |-> v0, v1 |-> v1, v2 |-> v2,
     normal |->
       Triangle(Scaled(v0, Lcm(CommonDen(v0), Lcm(CommonDen(v1), CommonDen(v2)))),
                Scaled(v1, Lcm(CommonDen(v0), Lcm(CommonDen(v1), CommonDen(v2)))),
                Scaled(v2, Lcm(CommonDen(v0), Lcm(CommonDen(v1), CommonDen(v2)))),
                material).normal,
     material |-> material]

\* MaterialType::Metal(color, fuzz) and MaterialType::Dielectric(ir)
MetalFuzz(albedo, fuzz) == [kind |-> "Metal", albedo |-> albedo, fuzz |-> fuzz]

DielectricIr(ir) == [kind |-> "Dielectric", ir |-> ir]

\* Option::None, and Some(result)
None == [some |-> FALSE]

Some(result) == [some |-> TRUE, result |-> result]

\* return Some(result()): a panic inside the closure is a panic of the call.
SomeResult(result) == IF result = Panic THEN Panic ELSE Some(result)

\* Ok((source, Camera::new_at(o, a))) of the reads p of parse_camera.
CameraOf(p) ==
    IF ~p.ok THEN p
    ELSE [ok |-> TRUE, rest |-> p.rest,
          camera |-> Camera(p.values[1], p.values[2])]

\* fn parse_camera
ParseCamera(source) ==
    LET k == StartsWith(source, "camera")
    IN  IF k = Panic THEN Panic
        ELSE IF ~k.ok THEN None
        ELSE SomeResult(CameraOf(
               ParseFields(k.rest,
                           <<Word("origin"), Vec3Field, Word("aspect"),
                             F32Field, Word(";")>>, <<>>)))

\* The Diffuse branch of parse_material, after the word Diffuse.
DiffuseOf(p, name) ==
    IF ~p.ok THEN p
    ELSE [ok |-> TRUE, rest |-> p.rest, name |-> name,
          material |-> Diffuse(VecIntoColor(p.values[1]))]

ParseDiffuse(source, name) ==
    DiffuseOf(ParseFields(source, <<Word("color"), Vec3Field, Word(";")>>,
                          <<>>), name)

\* The Metal branch of parse_material, after the word Metal.
MetalOf(p, name) ==
    IF ~p.ok THEN p
    ELSE [ok |-> TRUE, rest |-> p.rest, name |-> name,
          material |-> MetalFuzz(VecIntoColor(p.values[1]), p.values[2])]

ParseMetal(source, name) ==
    MetalOf(ParseFields(source,
                        <<Word("color"), Vec3Field, Word("fuzz"), F32Field,
                          Word(";")>>, <<>>), name)

\* The Dielectric branch of parse_material, after the word Dielectric.
DielectricOf(p, name) ==
    IF ~p.ok THEN p
    ELSE [ok |-> TRUE, rest |-> p.rest, name |-> name,
          material |-> DielectricIr(p.values[1])]

ParseDielectric(source, name) ==
    DielectricOf(ParseFields(source, <<Word("ir"), F32Field, Word(";")>>,
                             <<>>), name)

\* The material type of parse_material, on the text after the colon.
ParseMaterialType(body, name) ==
    IF StartsWith(body, "Diffuse") = Panic THEN Panic
    ELSE IF StartsWith(body, "Diffuse").ok
    THEN ParseDiffuse(StartsWith(body, "Diffuse").rest, name)
    ELSE IF StartsWith(body, "Metal") = Panic THEN Panic
    ELSE IF StartsWith(body, "Metal").ok
    THEN ParseMetal(StartsWith(body, "Metal").rest, name)
    ELSE IF StartsWith(body, "Dielectric") = Panic THEN Panic
    ELSE IF StartsWith(body, "Dielectric").ok
    THEN ParseDielectric(StartsWith(body, "Dielectric").rest, name)
    ELSE Err("WrongSyntax")

\* The material of the reads p (name and colon) of parse_material.
MaterialOf(p) ==
    IF ~p.ok THEN p
    ELSE ParseMaterialType(SkipWhitespace(p.rest), p.values[1])

\* fn parse_material
ParseMaterial(source) ==
    LET k == StartsWith(source, "material")
    IN  IF k = Panic THEN Panic
        ELSE IF ~k.ok THEN None
        ELSE SomeResult(MaterialOf(
               ParseFields(k.rest, <<NameField, Word(":")>>, <<>>)))

\* materials.get(m).ok_or(ParseError::WrongSyntax)
MaterialGet(materials, m) ==
    IF m \in DOMAIN materials
    THEN [ok |-> TRUE, material |-> materials[m]]
    ELSE Err("WrongSyntax")

\* materials.insert(name, material)
MaterialInsert(materials, name, material) ==
    [n \in DOMAIN materials \cup {name} |->
        IF n = name THEN material ELSE materials[n]]

\* Ok((source, Sphere::new(c, r, material))) of the reads p of parse_sphere.
SphereOf(p, materials) ==
    IF ~p.ok THEN p
    ELSE IF ~MaterialGet(materials, p.values[3]).ok
    THEN MaterialGet(materials, p.values[3])
    ELSE [ok |-> TRUE, rest |-> p.rest,
          sphere |-> Sphere(p.values[1], p.values[2],
                            MaterialGet(materials, p.values[3]).material)]

\* fn parse_sphere
ParseSphere(source, materials) ==
    LET k == StartsWith(source, "sphere")
    IN  IF k = Panic THEN Panic
        ELSE IF ~k.ok THEN None
        ELSE SomeResult(SphereOf(
               ParseFields(k.rest,
                           <<Word("center"), Vec3Field, Word("radius"),
                             F32Field, Word("material"), NameField,
                             Word(";")>>, <<>>), materials))

\* Ok((source, Triangle::new(v0, v1, v2, material))) of the reads p of
\* parse_triangle.
TriangleOf(p, materials) ==
    IF ~p.ok THEN p
    ELSE IF ~MaterialGet(materials, p.values[4]).ok
    THEN MaterialGet(materials, p.values[4])
    ELSE [ok |-> TRUE, rest |-> p.rest,
          triangle |->
            TriangleNew(p.values[1], p.values[2], p.values[3],
                        MaterialGet(materials, p.values[4]).material)]

\* fn parse_triangle
ParseTriangle(source, materials) ==
    LET k == StartsWith(source, "triangle")
    IN  IF k = Panic THEN Panic
        ELSE IF ~k.ok THEN None
        ELSE SomeResult(TriangleOf(
               ParseFields(k.rest,
                           <<Word("v0"), Vec3Field, Word("v1"), Vec3Field,
                             Word("v2"), Vec3Field, Word("material"),
                             NameField, Word(";")>>, <<>>), materials))

\* fn skip_comment
RECURSIVE SkipComment(_)
SkipComment(source) ==
    LET comment_line == StartsWith(source, "//")
    IN  IF comment_line = Panic THEN Panic
        ELSE IF ~comment_line.ok THEN OkRest(source)
        ELSE LET end_line == Find(comment_line.rest, "\n")
             IN  IF end_line = Panic THEN Panic
                 ELSE IF end_line.ok THEN SkipComment(From(end_line.rest, 1))
                 ELSE Err("WrongSyntax")

\* source = skip_whitespace(next); source = skip_comment(source)?;
NextStatement(next) == SkipComment(SkipWhitespace(next))

\* while let Some(result) = parse_material(source)
RECURSIVE MaterialLoop(_, _)

\* The body of the loop, for the Option p that parse_material returned.
MaterialLoopBody(p, source, materials) ==
    IF p = Panic THEN Panic
    ELSE IF ~p.some
    THEN [ok |-> TRUE, rest |-> source, materials |-> materials]
    ELSE IF ~p.result.ok THEN p.result
    ELSE LET c == NextStatement(p.result.rest)
         IN  IF ~c.ok THEN c
             ELSE MaterialLoop(c.rest,
                               MaterialInsert(materials, p.result.name,
                                              p.result.material))

MaterialLoop(source, materials) ==
    MaterialLoopBody(ParseMaterial(source), source, materials)

\* while let Some(result) = parse_sphere(source, &materials)
RECURSIVE SphereLoop(_, _, _)

SphereLoopBody(p, source, materials, spheres) ==
    IF p = Panic THEN Panic
    ELSE IF ~p.some THEN [ok |-> TRUE, rest |-> source, spheres |-> spheres]
    ELSE IF ~p.result.ok THEN p.result
    ELSE LET c == NextStatement(p.result.rest)
         IN  IF ~c.ok THEN c
             ELSE SphereLoop(c.rest, materials,
                             Append(spheres, p.result.sphere))

SphereLoop(source, materials, spheres) ==
    SphereLoopBody(ParseSphere(source, materials), source, materials, spheres)

\* while let Some(result) = parse_triangle(source, &materials)
RECURSIVE TriangleLoop(_, _, _)

TriangleLoopBody(p, source, materials, triangles) ==
    IF p = Panic THEN Panic
    ELSE IF ~p.some
    THEN [ok |-> TRUE, rest |-> source, triangles |-> triangles]
    ELSE IF ~p.result.ok THEN p.result
    ELSE LET c == NextStatement(p.result.rest)
         IN  IF ~c.ok THEN c
             ELSE TriangleLoop(c.rest, materials,
                               Append(triangles, p.result.triangle))

TriangleLoop(source, materials, triangles) ==
    TriangleLoopBody(ParseTriangle(source, materials), source, materials,
                     triangles)

\* parse_input after its triangle loop ts: input left over is WrongSyntax.
AfterTriangles(cam, ss, ts) ==
    IF ~ts.ok THEN ts
    ELSE IF ts.rest # "" THEN Err("WrongSyntax")
    ELSE [ok |-> TRUE, camera |-> cam.result.camera, spheres |-> ss.spheres,
          mesh |-> ts.triangles]

\* parse_input after its sphere loop ss.
AfterSpheres(cam, ms, ss) ==
    IF ~ss.ok THEN ss
    ELSE AfterTriangles(cam, ss, TriangleLoop(ss.rest, ms.materials, <<>>))

\* parse_input after its material loop ms.
AfterMaterials(cam, ms) ==
    IF ~ms.ok THEN ms
    ELSE AfterSpheres(cam, ms, SphereLoop(ms.rest, ms.materials, <<>>))

\* parse_input after the whitespace and comments c1 behind the camera.
AfterCameraGap(cam, c1) ==
    IF ~c1.ok THEN c1
    ELSE AfterMaterials(cam, MaterialLoop(c1.rest, <<>>))

\* parse_input after parse_camera returned cam.
AfterCamera(cam) ==
    IF cam = Panic THEN Panic
    ELSE IF ~cam.some THEN Err("MissingCamera")
    ELSE IF ~cam.result.ok THEN cam.result
    ELSE AfterCameraGap(cam, SkipComment(SkipWhitespace(cam.result.rest)))

\* fn parse_input: Ok((camera, spheres, Mesh::new(triangles))) or Err(kind)
ParseInput(source) ==
    LET c0 == SkipComment(source)
    IN  IF ~c0.ok THEN c0 ELSE AfterCamera(ParseCamera(c0.rest))

\* ------------------------------------------------------- scene descriptions
\* How many statements follow the camera statement of a scene.
MaxStatements == 3

DigitChar(n) == Char("0123456789", n)

RECURSIVE FormatNatural(_)
FormatNatural(n) ==
    IF n < 10 THEN DigitChar(n)
    ELSE FormatNatural(n \div 10) \o DigitChar(n % 10)

\* The shortest decimal literal of a decimal v of whole hundredths: 2, 0.5,
\* -1.25.
FormatF32(v) ==
    LET hundredths == v.num * (Centi \div v.den)
        whole == Abs(hundredths) \div Centi
        fraction == Abs(hundredths) % Centi
    IN  (IF hundredths < 0 THEN "-" ELSE "") \o FormatNatural(whole) \o
        (IF fraction = 0 THEN ""
         ELSE "." \o DigitChar(fraction \div 10) \o
              (IF fraction % 10 = 0 THEN "" ELSE DigitChar(fraction % 10)))

FormatVec3(v) ==
    FormatF32(v[1]) \o " " \o FormatF32(v[2]) \o " " \o FormatF32(v[3])

\* The channels of a colour.
ColorIntoVec(c) == <<Decimal(c[1], c[4]), Decimal(c[2], c[4]), Decimal(c[3], c[4])>>

\* camera : camera origin <f32> <f32> <f32> aspect <f32> ;
FormatCamera(c) ==
    "camera origin " \o FormatVec3(c.origin) \o " aspect " \o FormatF32(c.aspect)
      \o ";"

\* material : material <name> : <type> ;
FormatMaterial(name, m) ==
    "material " \o name \o " : " \o
    (CASE m.kind = "Diffuse" ->
            "Diffuse color " \o FormatVec3(ColorIntoVec(m.albedo))
       [] m.kind = "Metal" ->
            "Metal color " \o FormatVec3(ColorIntoVec(m.albedo)) \o " fuzz "
              \o FormatF32(m.fuzz)
       [] m.kind = "Dielectric" -> "Dielectric ir " \o FormatF32(m.ir))
    \o ";"

\* sphere : sphere center <f32> <f32> <f32> radius <f32> material <name> ;
FormatSphere(center, radius, name) ==
    "sphere center " \o FormatVec3(center) \o " radius " \o FormatF32(radius)
      \o " material " \o name \o ";"

\* triangle : triangle v0 <f32>*3 v1 <f32>*3 v2 <f32>*3 material <name> ;
FormatTriangle(v0, v1, v2, name) ==
    "triangle v0 " \o FormatVec3(v0) \o " v1 " \o FormatVec3(v1) \o " v2 "
      \o FormatVec3(v2) \o " material " \o name \o ";"

\* The statements a scene is made of; a sphere or a triangle names its
\* material.  The last is no statement of the grammar.
Hundredths(h) == Decimal(h, Centi)

HundredthsVec(v) == <<Hundredths(v[1]), Hundredths(v[2]), Hundredths(v[3])>>

CameraItem == Camera(HundredthsVec(<<0, 50, -100>>), Hundredths(150))

MaterialItems ==
    {[kind |-> "material", name |-> "m", material |-> Diffuse(Grey)],
     [kind |-> "material", name |-> "g", material |-> MetalFuzz(Gold, Hundredths(30))],
     [kind |-> "material", name |-> "d", material |-> DielectricIr(Hundredths(150))]}

SphereItems ==
    {[kind |-> "sphere", center |-> HundredthsVec(<<0, 0, -100>>),
      radius |-> Hundredths(50), name |-> "m"],
     [kind |-> "sphere", center |-> HundredthsVec(<<125, 0, -200>>),
      radius |-> Hundredths(100), name |-> "m"]}

TriangleItems ==
    {[kind |-> "triangle", v0 |-> HundredthsVec(<<-300, -300, -300>>),
      v1 |-> HundredthsVec(<<300, -300, -300>>),
      v2 |-> HundredthsVec(<<0, 600, -300>>), name |-> "m"],
     [kind |-> "triangle", v0 |-> HundredthsVec(<<-100, 0, -200>>),
      v1 |-> HundredthsVec(<<100, 0, -200>>),
      v2 |-> HundredthsVec(<<0, 0, -400>>), name |-> "m"]}

OtherItems ==
    {[kind |-> "other", text |-> "light"], [kind |-> "other", text |-> "ligh"]}

\* The text of a statement that is none of the grammar, by its name: the
\* second has a character of two bytes.
OtherText(name) ==
    CASE name = "light" -> "light 1;"
      [] name = "ligh" -> "ligh é;"

Items == MaterialItems \cup SphereItems \cup TriangleItems \cup OtherItems

FormatItem(item) ==
    CASE item.kind = "material" -> FormatMaterial(item.name, item.material)
      [] item.kind = "sphere" -> FormatSphere(item.center, item.radius, item.name)
      [] item.kind = "triangle" ->
            FormatTriangle(item.v0, item.v1, item.v2, item.name)
      [] item.kind = "other" -> OtherText(item.text)

\* What separates two statements: the text up to a line boundary, and the
\* text from there to the next statement.
Gaps == {<<"\n", "">>, <<"\n", "  ">>, <<"\n", "\n">>}

\* Comment lines put at a line boundary, and a comment that no newline ends,
\* put at the end of the source, by their names.
CommentLines == {"line", "lines", "apart", "wide"}

OpenComment == "open"

\* The text of a comment, by its name ("": no comment); the comment line
\* "wide" has a character of two bytes.
CommentText(name) ==
    CASE name = "" -> ""
      [] name = "line" -> "// c\n"
      [] name = "lines" -> "// a\n// b\n"
      [] name = "apart" -> "// a\n\n// b\n"
      [] name = "wide" -> "// é\n"
      [] name = "open" -> "// c"

Scenes ==
    {[camera |-> c, items |-> is, gap |-> g, comment |-> "", at |-> 0] :
        c \in BOOLEAN, is \in InjSeqs(Items, MaxStatements), g \in Gaps}

\* The scene with the comment of a name put at its line boundary k (0: before
\* the first statement).
WithComment(scene, name, k) == [scene EXCEPT !.comment = name, !.at = k]

\* The statements of a scene, as text.
Statements(scene) ==
    (IF scene.camera THEN <<FormatCamera(CameraItem)>> ELSE <<>>)
      \o [i \in 1..Len(scene.items) |-> FormatItem(scene.items[i])]

\* The source text of a scene from its statement k on.
RECURSIVE DescribeFrom(_, _)
DescribeFrom(scene, k) ==
    LET lines == Statements(scene)
        n == Len(lines)
        comment(j) == IF scene.at = j THEN CommentText(scene.comment) ELSE ""
    IN  IF k > n
        THEN IF n = 0 THEN comment(0) ELSE scene.gap[1] \o comment(n)
        ELSE (IF k = 1 THEN comment(0)
              ELSE scene.gap[1] \o comment(k - 1) \o scene.gap[2])
             \o lines[k] \o DescribeFrom(scene, k + 1)

Describe(scene) == DescribeFrom(scene, 1)

\* The scene without its comment.
Plain(scene) == [scene EXCEPT !.comment = "", !.at = 0]

\* ---------------------------------------------------------------- parse_input
ParseInit ==
    /\ \E scene \in Scenes :
          \/ ps_scene = scene
          \/ \E name \in CommentLines, k \in 0..(MaxStatements + 1) :
                /\ k <= Len(Statements(scene))
                /\ scene.camera \/ k = 0
                /\ ps_scene = WithComment(scene, name, k)
          \/ ps_scene = WithComment(scene, OpenComment, Len(Statements(scene)))
    /\ ps_pc = "ready"
    /\ ps_result = [ok |-> FALSE, err |-> "none"]
    /\ CoreIdle
    /\ FfiIdle
    /\ SampleIdle

CallParseInput ==
    /\ ps_pc = "ready"
    /\ ps_result' = ParseInput(Describe(ps_scene))
    /\ ps_pc' = "done"
    /\ UNCHANGED <<ps_scene, coreVars, ffiVars, sampleVars>>

\* parse_input is one call.
ParseNext == CallParseInput

SpecParse == ParseInit /\ [][ParseNext]_vars

\* ------------------------------------------------------ parse_input, claims
ParseDone == ps_pc = "done"

IsMaterial(item) == item.kind = "material"

IsSphere(item) == item.kind = "sphere"

IsTriangle(item) == item.kind = "triangle"

\* The material the scene declares under a name.
Declared(scene, name) ==
    (CHOOSE item \in Range(SelectSeq(scene.items, IsMaterial)) :
        item.name = name).material

\* The spheres and the triangles a scene describes, in the order of their
\* statements.
DescribedSpheres(scene) ==
    LET ss == SelectSeq(scene.items, IsSphere)
    IN  [i \in 1..Len(ss) |->
           Sphere(ss[i].center, ss[i].radius, Declared(scene, ss[i].name))]

DescribedTriangles(scene) ==
    LET ts == SelectSeq(scene.items, IsTriangle)
    IN  [i \in 1..Len(ts) |->
           TriangleNew(ts[i].v0, ts[i].v1, ts[i].v2,
                       Declared(scene, ts[i].name))]

\* One camera statement, one material statement, one sphere statement that
\* names that material, and no comment.
MinimalScene(scene) ==
    /\ scene.camera
    /\ scene.comment = ""
    /\ Len(scene.items) = 2
    /\ IsMaterial(scene.items[1])
    /\ IsSphere(scene.items[2])
    /\ scene.items[2].name = scene.items[1].name

\* C12: parse_input on the description of a minimal scene returns Ok with the
\* camera of the described origin and aspect, the one described sphere
\* (center, radius, material) and an empty mesh; and every successful parse
\* returns the described camera, one Sphere per sphere statement and one
\* Triangle per triangle statement, in the order of the statements.
C12_RoundTrip ==
    ParseDone =>
      /\ MinimalScene(ps_scene) =>
            /\ ps_result.ok
            /\ ps_result.camera = CameraItem
            /\ ps_result.spheres =
                 <<Sphere(ps_scene.items[2].center, ps_scene.items[2].radius,
                          ps_scene.items[1].material)>>
            /\ ps_result.mesh = <<>>
      /\ ps_result.ok =>
            /\ ps_scene.camera
            /\ ps_result.camera = CameraItem
            /\ ps_result.spheres = DescribedSpheres(ps_scene)
            /\ ps_result.mesh = DescribedTriangles(ps_scene)

\* A minimal scene, parsed.
C12_MinimalParsed ==
    /\ ParseDone
    /\ MinimalScene(ps_scene)
    /\ ps_scene.gap[2] = "  "
    /\ ps_result.ok
    /\ Len(ps_result.spheres) = 1
    /\ ps_result.spheres[1].material.kind = "Diffuse"

\* Two triangle statements that differ, parsed into two Triangles.
C12_TwoTrianglesParsed ==
    /\ ParseDone
    /\ ps_result.ok
    /\ Len(ps_result.mesh) = 2
    /\ ps_result.mesh[1] # ps_result.mesh[2]
    /\ ps_result.mesh[1].v0 = ps_scene.items[2].v0

\* Two sphere statements that differ, parsed into two Spheres in the order
\* of the statements, the farther sphere first.
C12_Witness ==
    /\ ParseDone
    /\ ps_result.ok
    /\ ps_scene.comment = ""
    /\ Len(ps_result.spheres) = 2
    /\ ps_result.spheres[1] # ps_result.spheres[2]
    /\ ps_result.spheres[1].center = ps_scene.items[2].center
    /\ ps_result.spheres[1].center = HundredthsVec(<<125, 0, -200>>)
    /\ ps_result.spheres[2].center = ps_scene.items[3].center

\* The statements after the camera are materials, then spheres, then
\* triangles, and each sphere and triangle names a material of the scene.
InGrammarOrder(scene) ==
    LET items == scene.items
        rank(item) == CASE item.kind = "material" -> 1
                        [] item.kind = "sphere" -> 2
                        [] item.kind = "triangle" -> 3
                        [] OTHER -> 0
    IN  /\ \A i \in DOMAIN items : rank(items[i]) > 0
        /\ \A i, j \in DOMAIN items : i < j => rank(items[i]) <= rank(items[j])
        /\ \A i \in DOMAIN items :
              rank(items[i]) > 1 =>
                 \E j \in DOMAIN items :
                    IsMaterial(items[j]) /\ items[j].name = items[i].name

Failed(kind) == ~ps_result.ok /\ ps_result.err = kind

\* C13: parse_input returns MissingCamera exactly when the scene
\* does not begin with a camera statement; returns WrongSyntax when the scene
\* begins with a camera statement and its other statements are not
\* materials, then spheres, then triangles that name declared materials; and
\* returns Ok only for a scene that begins with a camera statement followed
\* by statements in that order.
C13_NamedFailures ==
    ParseDone =>
      /\ Failed("MissingCamera") <=> ~ps_scene.camera
      /\ ps_scene.camera /\ ~InGrammarOrder(ps_scene) => Failed("WrongSyntax")
      /\ ps_result.ok => ps_scene.camera /\ InGrammarOrder(ps_scene)

\* C15: a source with a comment line put before the camera statement, between
\* two statements or after the last one parses to what the source without the
\* comment line parses to.
C15_CommentsTransparent ==
    ParseDone /\ ps_scene.comment \in CommentLines =>
      ps_result = ParseInput(Describe(Plain(ps_scene)))

\* ------------------------------------------- ray_trace, screen coordinates
\* random_f32 draws from [0, 1): the draws are the multiples of 1/JitterSteps
\* below 1.
JitterSteps == 4

Jitters == 0 .. (JitterSteps - 1)

\* An f32 quotient, kept as numerator over denominator.  A zero denominator
\* is what f32 division by 0.0 gives: an infinity for a numerator that is
\* not zero, NaN for 0.0 / 0.0.
F32Quot(num, den) == [num |-> num, den |-> den]

\* (index as f32 + random.random_f32()) / (extent-1) as f32, with the draw
\* jitter / JitterSteps.
ScreenCoordinate(index, jitter, extent) ==
    F32Quot(index * JitterSteps + jitter, (extent - 1) * JitterSteps)

IsFinite(q) == q.den # 0

\* 0 <= q <= 1 for a finite q (every comparison with NaN is false, and an
\* infinity is above 1).
InUnitInterval(q) == IsFinite(q) /\ 0 <= q.num /\ q.num <= q.den

\* A pixel of a width x height image, about to be sampled: row in 0..height,
\* column in 0..width.
SampleInit ==
    /\ uv_pc = "draw"
    /\ \E w \in 1 .. MaxWidth, h \in 1 .. MaxHeight :
          \E r \in 0 .. (h - 1), c \in 0 .. (w - 1) :
             uv_in = [width |-> w, height |-> h, row |-> r, column |-> c]
    /\ uv_u = NoF32
    /\ uv_v = NoF32
    /\ CoreIdle
    /\ FfiIdle
    /\ ParseIdle

\* let u = ..; let v = ..; let ray = camera.cast_ray(u, v);
SampleCastRay ==
    /\ uv_pc = "draw"
    /\ \E ju \in Jitters, jv \in Jitters :
          /\ uv_u' = ScreenCoordinate(uv_in.column, ju, uv_in.width)
          /\ uv_v' = ScreenCoordinate(uv_in.row, jv, uv_in.height)
    /\ uv_pc' = "cast"
    /\ UNCHANGED <<uv_in, coreVars, ffiVars, parseVars>>

SampleNext == SampleCastRay

SpecSample == SampleInit /\ [][SampleNext]_vars

\* ---------------------------------- ray_trace, screen coordinates, claims
\* C14: every call ray_trace makes to camera.cast_ray, for every width and
\* height of at least 1, every row, column and jitter draw in [0, 1), passes
\* u and v computed with a non-zero divisor and with 0 <= u <= 1 and
\* 0 <= v <= 1.
C14_CastRayInDomain ==
    uv_pc = "cast" => InUnitInterval(uv_u) /\ InUnitInterval(uv_v)

=============================================================================
